---- MODULE Spec2Model ----
(***************************************************************************)
(* Model of src/src/invoice_service.py: InvoiceService.compute_total and   *)
(* its helper steps, as a pipeline over one invoice.                       *)
(*                                                                         *)
(* Representation.                                                         *)
(*  - Optional[T]: None is <<>>, a present value v is <<v>>.               *)
(*  - A Python str that the code only compares (sku, country, ...) is a    *)
(*    TLA+ string.  The coupon, which the code strips, is a sequence of    *)
(*    pieces; each piece is a non-empty string that is either whitespace   *)
(*    only or free of whitespace, and the text is their concatenation.     *)
(*  - unit_price is a whole number of currency units; every derived amount *)
(*    is an integer count of 1/10000 units, so that rate products are      *)
(*    exact.  Rates are stored as percentages.  Binary floating-point      *)
(*    rounding is not modelled.                                            *)
(*  - frame is the local-variable frame of compute_total: a function from  *)
(*    the names bound so far to their values.                              *)
(***************************************************************************)
EXTENDS Integers, Sequences, FiniteSets, TLC

VARIABLES inv, pc, frame, error, result

vars == <<inv, pc, frame, error, result>>

(***************************************************************************)
(* Bounds of the explored inputs.                                          *)
(***************************************************************************)
MaxItems == 2
MaxPad == 1

None == <<>>
Some(v) == <<v>>
IsNone(o) == o = <<>>
Get(o) == o[1]

\* One currency unit, in the 1/10000 units amounts are counted in.
Unit == 100 * 100
Money(n) == n * Unit
\* amount * (pct / 100).  Every amount a rate is applied to is a multiple of
\* 100, so the quotient is exact; dividing first keeps the product in range.
Times(amount, pct) == (amount \div 100) * pct

Bind(f, g) == [k \in DOMAIN f \cup DOMAIN g |-> IF k \in DOMAIN g THEN g[k] ELSE f[k]]

(***************************************************************************)
(* Configuration tables (class attributes of InvoiceService).              *)
(***************************************************************************)
\* Mutant of COUPON_RATES: VIP20 entered as 1.20.
COUPON_RATES_Vip120 == ("WELCOME10" :> 10) @@ ("VIP20" :> 120) @@ ("STUDENT5" :> 5)

COUPON_RATES == ("WELCOME10" :> 10) @@ ("VIP20" :> 20) @@ ("STUDENT5" :> 5)

SHIPPING_CONFIG ==
    ("TH" :> <<Money(500), Money(60)>>) @@ ("JP" :> <<Money(4000), Money(600)>>)
    @@ ("US" :> <<Money(100), Money(15)>>) @@ ("DEFAULT" :> <<Money(200), Money(25)>>)

US_SHIPPING_TIERS == << <<Money(100), Money(15)>>, <<Money(300), Money(8)>> >>

TAX_RATES == ("TH" :> 7) @@ ("JP" :> 10) @@ ("US" :> 8) @@ ("DEFAULT" :> 5)

MEMBERSHIP_DISCOUNTS == ("gold" :> 3) @@ ("platinum" :> 5)

CATEGORIES == {"book", "food", "electronics", "other"}

\* dict.get(key, default)
DictGet(d, key, default) == IF key \in DOMAIN d THEN d[key] ELSE default

(***************************************************************************)
(* str helpers for the coupon.                                             *)
(***************************************************************************)
IsSpace(piece) == piece \in {" ", "\t"}

RECURSIVE LStrip(_)
LStrip(s) == IF s # <<>> /\ IsSpace(Head(s)) THEN LStrip(Tail(s)) ELSE s

RECURSIVE RStrip(_)
RStrip(s) ==
    IF s # <<>> /\ IsSpace(s[Len(s)]) THEN RStrip(SubSeq(s, 1, Len(s) - 1)) ELSE s

\* str.strip()
Strip(s) == RStrip(LStrip(s))

\* The characters of the str.
RECURSIVE Text(_)
Text(s) == IF s = <<>> THEN "" ELSE Head(s) \o Text(Tail(s))

\* bool(str): the empty str is falsy.
Truthy(s) == Text(s) # ""

(***************************************************************************)
(* InvoiceService._validate                                                *)
(***************************************************************************)
\* The body of the loop over inv.items, for one item.
ItemProblems(it) ==
    (IF it.sku = "" THEN <<"Item sku is missing">> ELSE <<>>)
    \o (IF it.qty <= 0 THEN <<"Invalid qty for " \o it.sku>> ELSE <<>>)
    \o (IF it.unit_price < 0 THEN <<"Invalid price for " \o it.sku>> ELSE <<>>)
    \o (IF it.category \notin CATEGORIES
        THEN <<"Unknown category for " \o it.sku>> ELSE <<>>)

\* Mutant of ValidateItems: the loop stops at the first item that has a problem.
RECURSIVE ValidateItemsShortCircuit(_, _)
ValidateItemsShortCircuit(items, problems) ==
    IF items = <<>> THEN problems
    ELSE IF ItemProblems(Head(items)) # <<>>
         THEN problems \o ItemProblems(Head(items))
         ELSE ValidateItemsShortCircuit(Tail(items), problems)

RECURSIVE ValidateItems(_, _)
ValidateItems(items, problems) ==
    IF items = <<>> THEN problems
    ELSE ValidateItems(Tail(items), problems \o ItemProblems(Head(items)))

_validate(i) ==
    IF IsNone(i) THEN <<"Invoice is missing">>
    ELSE LET v == Get(i) IN
         ValidateItems(v.items,
            (IF v.invoice_id = "" THEN <<"Missing invoice_id">> ELSE <<>>)
            \o (IF v.customer_id = "" THEN <<"Missing customer_id">> ELSE <<>>)
            \o (IF v.items = <<>> THEN <<"Invoice must contain items">> ELSE <<>>))

\* "; ".join(problems)
RECURSIVE Join(_, _)
Join(strs, sep) ==
    IF strs = <<>> THEN ""
    ELSE IF Len(strs) = 1 THEN strs[1]
    ELSE strs[1] \o sep \o Join(Tail(strs), sep)

\* Mutant of ShouldRaise: a single problem is let through.
ShouldRaiseMoreThanOne(problems) == Len(problems) > 1

\* `if problems:` in compute_total
ShouldRaise(problems) == problems # <<>>

(***************************************************************************)
(* InvoiceService._calculate_subtotal_and_fragile_fee                      *)
(***************************************************************************)
RECURSIVE SumItems(_, _, _)
SumItems(items, subtotal, fragile_fee) ==
    IF items = <<>> THEN <<subtotal, fragile_fee>>
    ELSE LET it == Head(items) IN
         SumItems(Tail(items),
                  subtotal + Money(it.unit_price) * it.qty,
                  IF it.fragile THEN fragile_fee + Money(5) * it.qty ELSE fragile_fee)

_calculate_subtotal_and_fragile_fee(items) == SumItems(items, 0, 0)

(***************************************************************************)
(* InvoiceService._calculate_shipping                                      *)
(***************************************************************************)
RECURSIVE FirstTier(_, _)
FirstTier(tiers, subtotal) ==
    IF tiers = <<>> THEN 0
    ELSE IF subtotal < Head(tiers)[1] THEN Head(tiers)[2]
    ELSE FirstTier(Tail(tiers), subtotal)

\* Mutant of _calculate_shipping: no branch for "US", its entry of the general
\* table is used.
CalculateShippingNoUsBranch(country, subtotal) ==
    LET config == DictGet(SHIPPING_CONFIG, country, SHIPPING_CONFIG["DEFAULT"])
    IN  IF subtotal < config[1] THEN config[2] ELSE 0

\* Mutant of _calculate_shipping: the fee is still charged at the threshold.
CalculateShippingAtThreshold(country, subtotal) ==
    IF country = "US" THEN FirstTier(US_SHIPPING_TIERS, subtotal)
    ELSE LET config == DictGet(SHIPPING_CONFIG, country, SHIPPING_CONFIG["DEFAULT"])
         IN  IF subtotal <= config[1] THEN config[2] ELSE 0

_calculate_shipping(country, subtotal) ==
    IF country = "US" THEN FirstTier(US_SHIPPING_TIERS, subtotal)
    ELSE LET config == DictGet(SHIPPING_CONFIG, country, SHIPPING_CONFIG["DEFAULT"])
         IN  IF subtotal < config[1] THEN config[2] ELSE 0

(***************************************************************************)
(* InvoiceService._calculate_discount, in its two parts                    *)
(***************************************************************************)
\* Mutant of MembershipDiscount: `if` instead of `elif`, the flat amount is
\* added on top of the membership rate.
MembershipDiscountAdditive(membership, subtotal) ==
    (IF membership \in DOMAIN MEMBERSHIP_DISCOUNTS
     THEN Times(subtotal, MEMBERSHIP_DISCOUNTS[membership]) ELSE 0)
    + (IF subtotal > Money(3000) THEN Money(20) ELSE 0)

MembershipDiscount(membership, subtotal) ==
    IF membership \in DOMAIN MEMBERSHIP_DISCOUNTS
    THEN Times(subtotal, MEMBERSHIP_DISCOUNTS[membership])
    ELSE IF subtotal > Money(3000) THEN Money(20) ELSE 0

\* Mutant of CouponGiven: `if inv.coupon is not None:`.
CouponGivenNotNone(coupon) == ~IsNone(coupon)

\* `if inv.coupon:`
CouponGiven(coupon) == ~IsNone(coupon) /\ Truthy(Get(coupon))

\* code = inv.coupon.strip()
CouponCode(coupon) == Text(Strip(Get(coupon)))

\* The amount the coupon adds to discount and what it appends to warnings.
CouponDiscount(coupon, subtotal) ==
    IF CouponGiven(coupon)
    THEN LET code == CouponCode(coupon) IN
         IF code \in DOMAIN COUPON_RATES
         THEN [amount |-> Times(subtotal, COUPON_RATES[code]), warnings |-> <<>>]
         ELSE [amount |-> 0, warnings |-> <<"Unknown coupon">>]
    ELSE [amount |-> 0, warnings |-> <<>>]

(***************************************************************************)
(* InvoiceService._calculate_tax                                           *)
(***************************************************************************)
_calculate_tax(country, taxable_amount) ==
    Times(taxable_amount, DictGet(TAX_RATES, country, TAX_RATES["DEFAULT"]))

(***************************************************************************)
(* compute_total: assembly and the upsell warning                          *)
(***************************************************************************)
\* `subtotal - discount`, the argument of _calculate_tax in compute_total.
\* Mutant: shipping and the fragile fee are taxed too.
TaxableAmountWithFees(f) == f.subtotal + f.shipping + f.fragile_fee - f.discount

TaxableAmount(f) == f.subtotal - f.discount

\* max(a, b) of Python: b only when it is greater than a.
PyMax(a, b) == IF b > a THEN b ELSE a

\* Mutant of AssembleTotal: the operands of the subtraction are swapped and
\* the clamp is lost.
AssembleTotalSwapped(subtotal, shipping, fragile_fee, tax, discount) ==
    discount - (subtotal + shipping + fragile_fee + tax)

AssembleTotal(subtotal, shipping, fragile_fee, tax, discount) ==
    PyMax(0, subtotal + shipping + fragile_fee + tax - discount)

\* Mutant of UpsellWarnings: `>=` instead of `>`.
UpsellWarningsAtThreshold(subtotal, membership) ==
    IF subtotal >= Money(10000) /\ membership \notin {"gold", "platinum"}
    THEN <<"Consider membership upgrade">> ELSE <<>>

UpsellWarnings(subtotal, membership) ==
    IF subtotal > Money(10000) /\ membership \notin {"gold", "platinum"}
    THEN <<"Consider membership upgrade">> ELSE <<>>

(***************************************************************************)
(* The invoices explored.  Init draws the argument of compute_total from   *)
(* six families:                                                           *)
(*  - no invoice at all;                                                   *)
(*  - invoices that vary what _validate looks at;                          *)
(*  - one-item invoices over valid and invalid categories;                 *)
(*  - valid invoices with up to MaxItems items that vary quantity,         *)
(*    fragility, country, membership and coupon;                           *)
(*  - valid one-item invoices whose subtotal sits on, just below or just   *)
(*    above each threshold of the tables;                                  *)
(*  - valid invoices that vary the coupon str.                             *)
(***************************************************************************)
LineItem(sku, category, unit_price, qty, fragile) ==
    [sku |-> sku, category |-> category, unit_price |-> unit_price, qty |-> qty,
     fragile |-> fragile]

Invoice(invoice_id, customer_id, country, membership, coupon, items) ==
    [invoice_id |-> invoice_id, customer_id |-> customer_id, country |-> country,
     membership |-> membership, coupon |-> coupon, items |-> items]

ValidationItems ==
    {LineItem(sku, category, unit_price, qty, FALSE) :
        sku \in {"", "A", "B"}, category \in {"book", "toy"},
        unit_price \in {-1, 0}, qty \in {0, 1}}

PricingItems ==
    {LineItem("A", "other", unit_price, qty, fragile) :
        unit_price \in {0, 100, 6000}, qty \in {1, 2}, fragile \in BOOLEAN}

Countries == {"TH", "JP", "US", "FR"}

Memberships == {"", "gold", "platinum"}

ThresholdPrices ==
    {99, 100, 101, 199, 200, 299, 300, 499, 500, 2999, 3000, 3001, 3999, 4000,
     10000, 10001}

Pad(n) == [k \in 1..n |-> " "]

\* Coupon strs: a core, padded on each side by up to MaxPad blanks.
CouponCores ==
    {<<>>, <<"WELCOME10">>, <<"VIP20">>, <<"STUDENT5">>, <<"vip20">>, <<"BOGUS">>,
     <<"VIP", "20">>, <<"VIP20", " ", "VIP20">>, <<"\t", "STUDENT5">>}

CouponStrs ==
    {Pad(l) \o core \o Pad(r) : core \in CouponCores, l \in 0..MaxPad, r \in 0..MaxPad}

MissingInvoice == inv = None

ValidationInvoice ==
    \E invoice_id \in {"", "INV-1"}, customer_id \in {"", "CUST-1"}, n \in 0..MaxItems :
        \E items \in [1..n -> ValidationItems] :
            inv = Some(Invoice(invoice_id, customer_id, "TH", "", None, items))

CategoryInvoice ==
    \E category \in CATEGORIES \cup {"", "Book", "books"} :
        inv = Some(Invoice("INV-1", "CUST-1", "TH", "", None,
                           <<LineItem("A", category, 10, 1, FALSE)>>))

PricingInvoice ==
    \E country \in Countries, membership \in Memberships,
       coupon \in {None, Some(<<"WELCOME10">>)}, n \in 1..MaxItems :
        \E items \in [1..n -> PricingItems] :
            inv = Some(Invoice("INV-1", "CUST-1", country, membership, coupon, items))

ThresholdInvoice ==
    \E country \in Countries, membership \in {"", "gold"}, unit_price \in ThresholdPrices :
        inv = Some(Invoice("INV-1", "CUST-1", country, membership, None,
                           <<LineItem("A", "food", unit_price, 1, TRUE)>>))

CouponInvoice ==
    \E country \in {"TH", "FR"}, membership \in {"silver", "gold"},
       coupon \in CouponStrs, unit_price \in {100, 3500, 10500} :
        inv = Some(Invoice("INV-1", "CUST-1", country, membership, Some(coupon),
                           <<LineItem("A", "electronics", unit_price, 1, FALSE)>>))

(***************************************************************************)
(* compute_total as a state machine: pc is the next statement to run.      *)
(***************************************************************************)
Init ==
    /\ \/ MissingInvoice
       \/ ValidationInvoice
       \/ CategoryInvoice
       \/ PricingInvoice
       \/ ThresholdInvoice
       \/ CouponInvoice
    /\ pc = "validate"
    /\ frame = <<>>
    /\ error = None
    /\ result = None

\* lines 127-130: warnings = [], problems = self._validate(inv), the raise.
Validate ==
    /\ pc = "validate"
    /\ LET problems == _validate(inv) IN
       /\ frame' = Bind(frame, [warnings |-> <<>>, problems |-> problems])
       /\ IF ShouldRaise(problems)
          THEN /\ pc' = "raised"
               /\ error' = Some(Join(problems, "; "))
          ELSE /\ pc' = "subtotal"
               /\ error' = error
    /\ UNCHANGED <<inv, result>>

\* line 132
CalcSubtotal ==
    /\ pc = "subtotal"
    /\ LET r == _calculate_subtotal_and_fragile_fee(Get(inv).items) IN
       frame' = Bind(frame, [subtotal |-> r[1], fragile_fee |-> r[2]])
    /\ pc' = "shipping"
    /\ UNCHANGED <<inv, error, result>>

\* line 133
CalcShipping ==
    /\ pc = "shipping"
    /\ frame' = Bind(frame,
                     [shipping |-> _calculate_shipping(Get(inv).country, frame.subtotal)])
    /\ pc' = "membership"
    /\ UNCHANGED <<inv, error, result>>

\* line 134, _calculate_discount lines 103-109
CalcMembership ==
    /\ pc = "membership"
    /\ frame' = Bind(frame,
                     [discount |-> 0 + MembershipDiscount(Get(inv).membership, frame.subtotal)])
    /\ pc' = "coupon"
    /\ UNCHANGED <<inv, error, result>>

\* line 134, _calculate_discount lines 111-119
CalcCoupon ==
    /\ pc = "coupon"
    /\ LET c == CouponDiscount(Get(inv).coupon, frame.subtotal) IN
       frame' = Bind(frame, [discount |-> frame.discount + c.amount,
                             warnings |-> frame.warnings \o c.warnings])
    /\ pc' = "tax"
    /\ UNCHANGED <<inv, error, result>>

\* line 135
CalcTax ==
    /\ pc = "tax"
    /\ frame' = Bind(frame,
                     [tax |-> _calculate_tax(Get(inv).country, TaxableAmount(frame))])
    /\ pc' = "total"
    /\ UNCHANGED <<inv, error, result>>

\* line 137
CalcTotal ==
    /\ pc = "total"
    /\ frame' = Bind(frame,
                     [total |-> AssembleTotal(frame.subtotal, frame.shipping,
                                              frame.fragile_fee, frame.tax,
                                              frame.discount)])
    /\ pc' = "upsell"
    /\ UNCHANGED <<inv, error, result>>

\* lines 139-142
UpsellAndReturn ==
    /\ pc = "upsell"
    /\ LET warnings == frame.warnings
                       \o UpsellWarnings(frame.subtotal, Get(inv).membership) IN
       /\ frame' = Bind(frame, [warnings |-> warnings])
       /\ result' = Some([total |-> frame.total, warnings |-> warnings])
    /\ pc' = "returned"
    /\ UNCHANGED <<inv, error>>

Next ==
    \/ Validate
    \/ CalcSubtotal
    \/ CalcShipping
    \/ CalcMembership
    \/ CalcCoupon
    \/ CalcTax
    \/ CalcTotal
    \/ UpsellAndReturn

Spec == Init /\ [][Next]_vars

(***************************************************************************)
(* Properties.  The expectations below are written from the statements     *)
(* being checked, with the figures they quote, and use none of the         *)
(* operators above that model the pricing or validation code.              *)
(***************************************************************************)
Bound(name) == name \in DOMAIN frame

Returned == pc = "returned"

PricingPcs == {"subtotal", "shipping", "membership", "coupon", "tax", "total", "upsell"}

PricingLocals == {"subtotal", "fragile_fee", "shipping", "discount", "tax", "total"}

Count(seq, x) == Cardinality({k \in 1..Len(seq) : seq[k] = x})

IsMember(membership) == membership \in {"gold", "platinum"}

\* --- C1 ---------------------------------------------------------------
\* C1: every invoice that passes validation gets a total that is >= 0, in the
\* local `total` and in the returned pair.
C1_TotalNonNegative ==
    /\ Bound("total") => frame.total >= 0
    /\ Returned => Get(result).total >= 0 /\ Get(result).total = frame.total

\* A valid invoice with a discount was priced and its total returned.
C1_Witness ==
    /\ Returned
    /\ frame.discount > 0
    /\ frame.shipping = 0
    /\ Get(result).total > 0

\* --- C2 ---------------------------------------------------------------
\* C2: when the validator reports a problem (the missing invoice included),
\* compute_total ends in the error outcome, no pricing local is ever bound
\* and nothing is returned; a pricing step runs, or a result is returned, only
\* after validation returned the empty list.
C2_ValidationGate ==
    /\ (Bound("problems") /\ frame.problems # <<>>) =>
           /\ pc = "raised"
           /\ error # None
           /\ result = None
           /\ DOMAIN frame \cap PricingLocals = {}
    /\ (pc \in PricingPcs \/ Returned) => Bound("problems") /\ frame.problems = <<>>
    /\ (DOMAIN frame \cap PricingLocals # {} \/ result # None) =>
           Bound("problems") /\ frame.problems = <<>> /\ error = None
    /\ (IsNone(inv) /\ pc # "validate") =>
           pc = "raised" /\ frame.problems = <<"Invoice is missing">>

\* The validator reported exactly one problem and compute_total raised.
C2_Witness == pc = "raised" /\ Len(frame.problems) = 1 /\ error # None

\* --- C3 ---------------------------------------------------------------
C3_Pick(candidates) ==
    LET hit == SelectSeq(candidates, LAMBDA c : c[1])
    IN  [k \in 1..Len(hit) |-> hit[k][2]]

C3_ItemMessages(it) ==
    C3_Pick(<< <<it.sku = "", "Item sku is missing">>,
               <<it.qty <= 0, "Invalid qty for " \o it.sku>>,
               <<it.unit_price < 0, "Invalid price for " \o it.sku>>,
               <<it.category \notin {"book", "food", "electronics", "other"},
                 "Unknown category for " \o it.sku>> >>)

RECURSIVE C3_Flatten(_)
C3_Flatten(seqs) ==
    IF seqs = <<>> THEN <<>>
    ELSE C3_Flatten(SubSeq(seqs, 1, Len(seqs) - 1)) \o seqs[Len(seqs)]

C3_Expected(v) ==
    C3_Pick(<< <<v.invoice_id = "", "Missing invoice_id">>,
               <<v.customer_id = "", "Missing customer_id">>,
               <<v.items = <<>>, "Invoice must contain items">> >>)
    \o C3_Flatten([k \in 1..Len(v.items) |-> C3_ItemMessages(v.items[k])])

RECURSIVE C3_Joined(_)
C3_Joined(msgs) ==
    IF Len(msgs) <= 1 THEN (IF msgs = <<>> THEN "" ELSE msgs[1])
    ELSE C3_Joined(SubSeq(msgs, 1, Len(msgs) - 1)) \o "; " \o msgs[Len(msgs)]

\* C3: for a non-missing invoice the problems are, in this order, the
\* invoice_id, customer_id and empty-items messages, then item by item the sku,
\* qty, price and category messages, one per violated rule, later items being
\* checked whatever earlier items did; the error message is the problems
\* joined by "; ".
C3_ProblemSequence ==
    (~IsNone(inv) /\ Bound("problems")) =>
        /\ frame.problems = C3_Expected(Get(inv))
        /\ pc = "raised" => error = Some(C3_Joined(C3_Expected(Get(inv))))
        /\ (Get(inv).invoice_id = "" /\ Get(inv).customer_id # "" /\ Get(inv).items = <<>>) =>
               error = Some("Missing invoice_id; Invoice must contain items")

\* Two items, each with a bad qty, gave two qty messages in item order.
C3_Witness ==
    /\ pc = "raised"
    /\ ~IsNone(inv)
    /\ Len(Get(inv).items) = 2
    /\ Get(inv).items[1].sku = "A" /\ Get(inv).items[1].qty <= 0
    /\ Get(inv).items[2].sku = "B" /\ Get(inv).items[2].qty <= 0
    /\ error = Some("Invalid qty for A; Invalid qty for B")

\* --- C5 ---------------------------------------------------------------
\* The membership part of the discount as the statement gives it.
C5_Expected(membership, subtotal) ==
    CASE membership = "gold" -> (subtotal \div 100) * 3
      [] membership = "platinum" -> (subtotal \div 100) * 5
      [] OTHER -> IF subtotal > 3000 * Unit THEN 20 * Unit ELSE 0

\* C5: the membership part of the discount is either subtotal x rate (gold 3%,
\* platinum 5%) or, for any other membership, 20 when subtotal > 3000 and 0
\* otherwise; never both.  Gold with subtotal 4000 and no coupon gives 120.
C5_MembershipEitherOr ==
    /\ pc = "coupon" =>
           frame.discount = C5_Expected(Get(inv).membership, frame.subtotal)
    /\ (Returned /\ Get(inv).membership = "gold" /\ frame.subtotal = 4000 * Unit
          /\ IsNone(Get(inv).coupon)) => frame.discount = 120 * Unit

\* Gold member, subtotal 4000: the membership step left a discount of 120.
C5_Witness ==
    /\ pc = "coupon"
    /\ Get(inv).membership = "gold"
    /\ frame.subtotal = 4000 * Unit
    /\ frame.discount = 120 * Unit

\* --- C4 ---------------------------------------------------------------
C4_CouponKeys == {"WELCOME10", "VIP20", "STUDENT5"}

C4_Trimmed(coupon) == Text(Strip(Get(coupon)))

C4_UnknownCount == Count(Get(result).warnings, "Unknown coupon")

\* C4 as stated: every non-null coupon whose trimmed code is not in the table
\* adds 0 to the discount and puts "Unknown coupon" exactly once in the
\* returned warnings; a null coupon or a known trimmed code puts none.
C4_AsStated ==
    Returned =>
        LET coupon == Get(inv).coupon IN
        /\ (~IsNone(coupon) /\ C4_Trimmed(coupon) \notin C4_CouponKeys) =>
               /\ frame.discount = C5_Expected(Get(inv).membership, frame.subtotal)
               /\ C4_UnknownCount = 1
        /\ (IsNone(coupon) \/ C4_Trimmed(coupon) \in C4_CouponKeys) =>
               C4_UnknownCount = 0

\* C4, amended: the same for every coupon that is neither null nor the empty
\* str; a null coupon, the empty str or a known trimmed code puts no
\* "Unknown coupon" in the warnings, and the empty str adds 0 as well.
C4_NonEmptyUnknownCoupon ==
    Returned =>
        LET coupon == Get(inv).coupon IN
        /\ (~IsNone(coupon) /\ Get(coupon) # <<>>
              /\ C4_Trimmed(coupon) \notin C4_CouponKeys) =>
               /\ frame.discount = C5_Expected(Get(inv).membership, frame.subtotal)
               /\ C4_UnknownCount = 1
        /\ (~IsNone(coupon) /\ Get(coupon) = <<>>) =>
               /\ frame.discount = C5_Expected(Get(inv).membership, frame.subtotal)
               /\ C4_UnknownCount = 0
        /\ (IsNone(coupon) \/ C4_Trimmed(coupon) \in C4_CouponKeys) =>
               C4_UnknownCount = 0

\* A blank-only coupon was priced: no coupon discount, one warning.
C4_Witness ==
    /\ Returned
    /\ Get(inv).coupon = Some(<<" ">>)
    /\ frame.discount = C5_Expected(Get(inv).membership, frame.subtotal)
    /\ Get(result).warnings = <<"Unknown coupon">>

\* --- C6 ---------------------------------------------------------------
\* C6: for country "US" shipping is 15 below 100, 8 from 100 to below 300 and
\* 0 from 300 on (first tier in listed order whose threshold exceeds the
\* pre-discount subtotal).
C6_UsShipping ==
    (Bound("shipping") /\ Get(inv).country = "US") =>
        frame.shipping = (IF frame.subtotal < 100 * Unit THEN 15 * Unit
                          ELSE IF frame.subtotal < 300 * Unit THEN 8 * Unit
                          ELSE 0)

\* A US invoice between the two tiers was charged the second tier's fee.
C6_Witness ==
    /\ Bound("shipping")
    /\ Get(inv).country = "US"
    /\ frame.subtotal >= 100 * Unit /\ frame.subtotal < 300 * Unit
    /\ frame.shipping = 8 * Unit

\* --- C7 ---------------------------------------------------------------
C7_Threshold(country) ==
    CASE country = "TH" -> 500 * Unit
      [] country = "JP" -> 4000 * Unit
      [] OTHER -> 200 * Unit

C7_Fee(country) ==
    CASE country = "TH" -> 60 * Unit
      [] country = "JP" -> 600 * Unit
      [] OTHER -> 25 * Unit

\* C7: for every country other than "US" the fee of its entry (TH 500/60,
\* JP 4000/600, unlisted 200/25) is charged when subtotal < threshold, and
\* shipping is 0 when subtotal >= threshold.
C7_NonUsShipping ==
    (Bound("shipping") /\ Get(inv).country # "US") =>
        frame.shipping = (IF frame.subtotal < C7_Threshold(Get(inv).country)
                          THEN C7_Fee(Get(inv).country) ELSE 0)

\* An unlisted country at exactly the DEFAULT threshold ships free.
C7_Witness ==
    /\ Bound("shipping")
    /\ Get(inv).country = "FR"
    /\ frame.subtotal = 200 * Unit
    /\ frame.shipping = 0

\* --- C8 ---------------------------------------------------------------
C8_Upgrade == "Consider membership upgrade"

\* C8: the returned warnings hold "Consider membership upgrade" exactly once,
\* as the last element, iff subtotal > 10000 and membership is neither gold
\* nor platinum; "Unknown coupon" comes before it when both are present; there
\* is no other warning; the upgrade warning is not there before the last step.
C8_WarningOrder ==
    /\ Returned =>
        LET w == Get(result).warnings
            due == frame.subtotal > 10000 * Unit /\ ~IsMember(Get(inv).membership)
        IN  /\ \A k \in 1..Len(w) : w[k] \in {"Unknown coupon", C8_Upgrade}
            /\ Count(w, C8_Upgrade) = (IF due THEN 1 ELSE 0)
            /\ due => w[Len(w)] = C8_Upgrade
            /\ \A j, k \in 1..Len(w) :
                   (w[j] = "Unknown coupon" /\ w[k] = C8_Upgrade) => j < k
            /\ w = frame.warnings
    /\ (Bound("warnings") /\ ~Returned) => Count(frame.warnings, C8_Upgrade) = 0

\* Both warnings were returned, the coupon warning first.
C8_Witness ==
    /\ Returned
    /\ Get(result).warnings = <<"Unknown coupon", "Consider membership upgrade">>

\* --- C9 ---------------------------------------------------------------
C9_TaxPct(country) ==
    CASE country = "TH" -> 7
      [] country = "JP" -> 10
      [] country = "US" -> 8
      [] OTHER -> 5

C9_Sum(f) == f.subtotal + f.shipping + f.fragile_fee + f.tax - f.discount

RECURSIVE C9_FragileUnits(_)
C9_FragileUnits(items) ==
    IF items = <<>> THEN 0
    ELSE C9_FragileUnits(SubSeq(items, 1, Len(items) - 1))
         + (IF items[Len(items)].fragile THEN items[Len(items)].qty ELSE 0)

RECURSIVE C9_Subtotal(_)
C9_Subtotal(items) ==
    IF items = <<>> THEN 0
    ELSE C9_Subtotal(SubSeq(items, 1, Len(items) - 1))
         + items[Len(items)].unit_price * items[Len(items)].qty * Unit

\* C9: tax = (subtotal - discount) x the country's rate (5% when unlisted), so
\* shipping and the fragile fee (5 per unit of each fragile item) are not
\* taxed; total = max(0, subtotal + shipping + fragile_fee + tax - discount),
\* subtotal being the sum of unit_price x qty.
C9_TaxAndTotal ==
    /\ Bound("subtotal") => frame.subtotal = C9_Subtotal(Get(inv).items)
    /\ Bound("fragile_fee") => frame.fragile_fee = 5 * Unit * C9_FragileUnits(Get(inv).items)
    /\ Bound("tax") =>
           /\ (frame.subtotal - frame.discount) % 100 = 0
           /\ frame.tax = ((frame.subtotal - frame.discount) \div 100)
                             * C9_TaxPct(Get(inv).country)
    /\ Bound("total") =>
           frame.total = (IF C9_Sum(frame) < 0 THEN 0 ELSE C9_Sum(frame))

\* An invoice that pays shipping, a fragile fee and tax was priced.
C9_Witness ==
    /\ Returned
    /\ frame.shipping > 0
    /\ frame.fragile_fee > 0
    /\ frame.discount > 0
    /\ frame.tax > 0

\* --- C10 --------------------------------------------------------------
\* C10: with the fixed tables 0 <= discount <= subtotal (at most 25% of
\* subtotal for members, at most 20 + 20% of subtotal when subtotal > 3000, at
\* most 20% otherwise), so subtotal - discount is never negative, tax is never
\* negative and the clamp leaves the sum as it is.
C10_DiscountWithinSubtotal ==
    /\ Bound("discount") =>
        /\ 0 <= frame.discount
        /\ frame.discount <= frame.subtotal
        /\ frame.discount <=
               (IF IsMember(Get(inv).membership) THEN (frame.subtotal \div 100) * 25
                ELSE IF frame.subtotal > 3000 * Unit
                     THEN 20 * Unit + (frame.subtotal \div 100) * 20
                     ELSE (frame.subtotal \div 100) * 20)
    /\ Bound("tax") => frame.tax >= 0
    /\ Bound("total") => frame.total = C9_Sum(frame)

\* A non-member above 3000 used the largest coupon: discount 20 + 20%.
C10_Witness ==
    /\ Returned
    /\ ~IsMember(Get(inv).membership)
    /\ frame.subtotal > 3000 * Unit
    /\ frame.discount = 20 * Unit + (frame.subtotal \div 100) * 20

====
